---- MODULE Spec2Model ----
(***************************************************************************)
(* Model of the two PDF scans of the repository:                           *)
(*   main.py        AcademicBookMapper (the structural classifier and the  *)
(*                  report assembler),                                     *)
(*   phraseFind2.py find_chapters_with_details / display_chapter_analysis  *)
(*                  (the chapter locator).                                 *)
(* A text is a sequence of one-character strings, so that the regular      *)
(* expressions of the source are matched character by character, with the  *)
(* priority order (greedy first, then backtracking) of Python's re module. *)
(***************************************************************************)
EXTENDS Integers, Sequences, FiniteSets, TLC

(***************************************************************************)
(* Bounds of the model and constants of the program.                       *)
(***************************************************************************)
MaxPages == 2

MinChapterNum == 1
MaxChapterNum == 25
ContextWidth == 30
ContextMaxLen == 40
ContextKeep == 37
ProgressEvery == 10

(***************************************************************************)
(* Character classes of the regular expressions.                           *)
(***************************************************************************)
NL == "\n"

Space == {" ", "\n", "\t"}

Digit == {"0", "1", "2", "3", "4", "5", "6", "7", "8", "9"}

Roman == {"I", "V", "X", "L", "C"}

UpperSeq == <<"A","B","C","D","E","F","G","H","I","J","K","L","M",
              "N","O","P","Q","R","S","T","U","V","W","X","Y","Z">>

LowerSeq == <<"a","b","c","d","e","f","g","h","i","j","k","l","m",
              "n","o","p","q","r","s","t","u","v","w","x","y","z">>

Upper == {UpperSeq[i] : i \in DOMAIN UpperSeq}

DotOrColon == {".", ":"}

\* str.lower() on one character (the folding re.IGNORECASE applies).
Lower(c) ==
    IF c \in Upper
    THEN LowerSeq[CHOOSE i \in DOMAIN UpperSeq : UpperSeq[i] = c]
    ELSE c

LowerText(s) == [i \in DOMAIN s |-> Lower(s[i])]

\* int() of one decimal digit.
DigitVal(c) ==
    CASE c = "0" -> 0 [] c = "1" -> 1 [] c = "2" -> 2 [] c = "3" -> 3
      [] c = "4" -> 4 [] c = "5" -> 5 [] c = "6" -> 6 [] c = "7" -> 7
      [] c = "8" -> 8 [] c = "9" -> 9

\* int() of a string of decimal digits (Python integers do not overflow).
RECURSIVE ToInt(_)
ToInt(s) ==
    IF s = <<>> THEN 0
    ELSE 10 * ToInt(SubSeq(s, 1, Len(s) - 1)) + DigitVal(s[Len(s)])

(***************************************************************************)
(* Primitive matching steps.  Positions are 1-based; a text s is matched   *)
(* from position i on.                                                     *)
(***************************************************************************)
\* text[a:b] for 1-based a and exclusive end b.
Slice(s, a, b) == SubSeq(s, a, b - 1)

\* The literal lit occurs in s at position i.
HasLit(s, i, lit) ==
    /\ i >= 1
    /\ i + Len(lit) - 1 <= Len(s)
    /\ SubSeq(s, i, i + Len(lit) - 1) = lit

\* The same, under re.IGNORECASE.
HasLitCI(s, i, lit) == HasLit(LowerText(s), i, LowerText(lit))

\* Length of the longest run of characters of class C starting at i.
RECURSIVE Run(_, _, _)
Run(s, i, C) ==
    IF i <= Len(s) /\ s[i] \in C THEN 1 + Run(s, i + 1, C) ELSE 0

\* Length of the longest run of characters other than newline starting at i
\* (what ".+" and ".*" consume: "." does not match a newline).
RECURSIVE DotRun(_, _)
DotRun(s, i) ==
    IF i <= Len(s) /\ s[i] # NL THEN 1 + DotRun(s, i + 1) ELSE 0

Max(S) == CHOOSE x \in S : \A y \in S : y <= x

Min(S) == CHOOSE x \in S : \A y \in S : x <= y

\* Order of two choice vectors of the same length: the regex engine tries the
\* choices of the earlier quantifier first, each from its greediest value down.
RECURSIVE LexLess(_, _)
LexLess(u, v) ==
    /\ u # <<>>
    /\ \/ u[1] < v[1]
       \/ u[1] = v[1] /\ LexLess(Tail(u), Tail(v))

\* The choice vector the backtracking engine finds first.
First(S) == CHOOSE v \in S : \A u \in S : u = v \/ LexLess(u, v)

NoMatch == [ok |-> FALSE]

\* "\s*(.+)" at position p: the whitespace run is given back one character at
\* a time until a character other than newline follows.  start, stop delimit
\* the group (stop exclusive).
TitleAt(s, p) ==
    LET w == Run(s, p, Space)
        K == {k \in 0..w : p + k <= Len(s) /\ s[p + k] # NL}
    IN  IF K = {} THEN NoMatch
        ELSE LET b == p + Max(K)
             IN  [ok |-> TRUE, start |-> b, stop |-> b + DotRun(s, b)]

\* str.strip().
RECURSIVE LStrip(_)
LStrip(s) == IF s # <<>> /\ Head(s) \in Space THEN LStrip(Tail(s)) ELSE s

RECURSIVE RStrip(_)
RStrip(s) ==
    IF s # <<>> /\ s[Len(s)] \in Space
    THEN RStrip(SubSeq(s, 1, Len(s) - 1)) ELSE s

Strip(s) == RStrip(LStrip(s))

\* Length of the longest run of characters other than c starting at i.
RECURSIVE RunUntil(_, _, _)
RunUntil(s, i, c) ==
    IF i <= Len(s) /\ s[i] # c THEN 1 + RunUntil(s, i + 1, c) ELSE 0

\* str.split(c) for a one-character separator c.
RECURSIVE SplitOn(_, _)
SplitOn(s, c) ==
    LET n == RunUntil(s, 1, c)
    IN  IF n = Len(s) THEN <<s>>
        ELSE <<SubSeq(s, 1, n)>> \o SplitOn(SubSeq(s, n + 2, Len(s)), c)

\* str.split('\n').
Split(s) == SplitOn(s, NL)

\* lit in s.
Contains(s, lit) == \E i \in 1..Len(s) + 1 : HasLit(s, i, lit)

\* str.replace('\n', ' ').
ReplaceNL(s) == [i \in DOMAIN s |-> IF s[i] = NL THEN " " ELSE s[i]]

(***************************************************************************)
(* Literals of the patterns.                                               *)
(***************************************************************************)
LitChapter == <<"C","h","a","p","t","e","r">>

LitCHAPTER == <<"C","H","A","P","T","E","R">>

LitChapterSp == <<"C","h","a","p","t","e","r"," ">>

LitColonSp == <<":"," ">>

LitReferences == <<"R","e","f","e","r","e","n","c","e","s">>

LitBibliography == <<"B","i","b","l","i","o","g","r","a","p","h","y">>

LitAppendix == <<"A","p","p","e","n","d","i","x">>

LitFigure == <<"F","i","g","u","r","e">>

LitTable == <<"T","a","b","l","e">>

LitEq == <<"e","q">>

LitEquation == <<"e","q","u","a","t","i","o","n">>

LitEllipsis == <<".",".",".">>

(***************************************************************************)
(* The line matchers of _analyze_page_structure (re.match on one line).    *)
(***************************************************************************)
\* ^(?:Chapter|CHAPTER)\s+(\d+|[IVXLC]+)[.:]\s*(.+)
\* Choice vector: <<whitespace taken, 1 for \d+ / 0 for [IVXLC]+, length of
\* the number>>.
chapter_choices(line) ==
    LET p0 == Len(LitChapter) + 1
    IN  UNION {UNION {{<<a, alt, n>> :
                        n \in {m \in 1..Run(line, p0 + a,
                                           IF alt = 1 THEN Digit ELSE Roman) :
                                 /\ p0 + a + m <= Len(line)
                                 /\ line[p0 + a + m] \in DotOrColon
                                 /\ TitleAt(line, p0 + a + m + 1).ok}} :
                      alt \in {0, 1}} :
               a \in 1..Run(line, p0, Space)}

chapter_match(line) ==
    LET C == chapter_choices(line)
    IN  IF ~(HasLit(line, 1, LitChapter) \/ HasLit(line, 1, LitCHAPTER)) \/ C = {}
        THEN NoMatch
        ELSE LET v == First(C)
                 p == Len(LitChapter) + 1 + v[1]
                 t == TitleAt(line, p + v[3] + 1)
             IN  [ok |-> TRUE,
                  groups |-> <<Slice(line, p, p + v[3]),
                               Slice(line, t.start, t.stop)>>]

\* ^(\d+\.(?:\d+)*)\s+(.+)
\* Choice vector: <<length of the first digit group, digits after the dot,
\* whitespace taken>>.
section_choices(line) ==
    UNION {UNION {{<<d1, d2, w>> :
                    w \in {k \in 1..Run(line, d1 + 2 + d2, Space) :
                             /\ d1 + 2 + d2 + k <= Len(line)
                             /\ line[d1 + 2 + d2 + k] # NL}} :
                  d2 \in 0..Run(line, d1 + 2, Digit)} :
           d1 \in {d \in 1..Run(line, 1, Digit) :
                     d + 1 <= Len(line) /\ line[d + 1] = "."}}

section_match(line) ==
    LET C == section_choices(line)
    IN  IF C = {} THEN NoMatch
        ELSE LET v == First(C)
                 r == 2 + v[1] + v[2]
                 b == r + v[3]
             IN  [ok |-> TRUE,
                  groups |-> <<Slice(line, 1, r),
                               Slice(line, b, b + DotRun(line, b))>>]

\* ^References$|^Bibliography$ with re.IGNORECASE ("$" also matches before a
\* newline that ends the string).
references_match(line) ==
    LET body == IF line # <<>> /\ line[Len(line)] = NL
                THEN SubSeq(line, 1, Len(line) - 1) ELSE line
    IN  \/ LowerText(line) = LowerText(LitReferences)
        \/ LowerText(line) = LowerText(LitBibliography)
        \/ LowerText(body) = LowerText(LitReferences)
        \/ LowerText(body) = LowerText(LitBibliography)

\* ^Appendix\s+([A-Z]):\s*(.+)
appendix_match(line) ==
    LET p0 == Len(LitAppendix) + 1
        C  == {a \in 1..Run(line, p0, Space) :
                 /\ p0 + a + 1 <= Len(line)
                 /\ line[p0 + a] \in Upper
                 /\ line[p0 + a + 1] = ":"
                 /\ TitleAt(line, p0 + a + 2).ok}
    IN  IF ~HasLit(line, 1, LitAppendix) \/ C = {} THEN NoMatch
        ELSE LET a == Max(C)
                 t == TitleAt(line, p0 + a + 2)
             IN  [ok |-> TRUE,
                  groups |-> <<Slice(line, p0 + a, p0 + a + 1),
                               Slice(line, t.start, t.stop)>>]

(***************************************************************************)
(* The page matchers of _detect_figures_tables and of the locator          *)
(* (re.finditer over the whole text of a page).                            *)
(***************************************************************************)
\* (\d+\.?\d*) at position p: <<digits, 1 if the dot is taken, digits after>>.
number_choices(s, p) ==
    UNION {UNION {{<<d1, dot, d2>> : d2 \in 0..Run(s, p + d1 + dot, Digit)} :
                  dot \in {x \in {0, 1} :
                             x = 1 => (p + d1 <= Len(s) /\ s[p + d1] = ".")}} :
           d1 \in 1..Run(s, p, Digit)}

\* kw\s+(\d+\.?\d*)[.:]\s*(.+) at position i, for kw "Figure" or "Table".
\* Choice vector: <<whitespace taken, digits, dot, digits after>>.
caption_choices(s, i, kw) ==
    LET p0 == i + Len(kw)
    IN  UNION {{<<a, n[1], n[2], n[3]>> :
                 n \in {m \in number_choices(s, p0 + a) :
                          LET q == p0 + a + m[1] + m[2] + m[3]
                          IN  /\ q <= Len(s)
                              /\ s[q] \in DotOrColon
                              /\ TitleAt(s, q + 1).ok}} :
               a \in 1..Run(s, p0, Space)}

caption_at(s, i, kw) ==
    LET C == caption_choices(s, i, kw)
    IN  IF ~HasLit(s, i, kw) \/ C = {} THEN NoMatch
        ELSE LET v == First(C)
                 p == i + Len(kw) + v[1]
                 q == p + v[2] + v[3] + v[4]
                 t == TitleAt(s, q + 1)
             IN  [ok |-> TRUE, start |-> i, stop |-> t.stop,
                  groups |-> <<Slice(s, p, q), Slice(s, t.start, t.stop)>>]

\* \(\s*(?:eq|equation)?\s*(\d+\.?\d*)\s*\) with re.IGNORECASE at position i.
\* Choice vector: <<whitespace, 2 for "eq" / 1 for "equation" / 0 for neither,
\* whitespace, digits, dot, digits after, whitespace>>.
equation_prefixes(s, i) ==
    UNION {UNION {{<<a, alt, b>> :
                    b \in 0..Run(s, i + 1 + a + (CASE alt = 2 -> Len(LitEq)
                                                   [] alt = 1 -> Len(LitEquation)
                                                   [] alt = 0 -> 0), Space)} :
                  alt \in {x \in {0, 1, 2} :
                             /\ x = 2 => HasLitCI(s, i + 1 + a, LitEq)
                             /\ x = 1 => HasLitCI(s, i + 1 + a, LitEquation)}} :
           a \in 0..Run(s, i + 1, Space)}

equation_number_at(v, i) ==
    i + 1 + v[1] + v[3] + (CASE v[2] = 2 -> Len(LitEq)
                             [] v[2] = 1 -> Len(LitEquation)
                             [] v[2] = 0 -> 0)

equation_choices(s, i) ==
    UNION {UNION {{<<pre[1], pre[2], pre[3], n[1], n[2], n[3], c>> :
                    c \in {k \in 0..Run(s, equation_number_at(pre, i)
                                          + n[1] + n[2] + n[3], Space) :
                             LET q == equation_number_at(pre, i)
                                      + n[1] + n[2] + n[3] + k
                             IN  q <= Len(s) /\ s[q] = ")"}} :
                  n \in number_choices(s, equation_number_at(pre, i))} :
           pre \in equation_prefixes(s, i)}

equation_at(s, i) ==
    LET C == equation_choices(s, i)
    IN  IF ~HasLit(s, i, <<"(">>) \/ C = {} THEN NoMatch
        ELSE LET v == First(C)
                 p == equation_number_at(v, i)
                 q == p + v[4] + v[5] + v[6]
             IN  [ok |-> TRUE, start |-> i, stop |-> q + v[7] + 1,
                  groups |-> <<Slice(s, p, q)>>]

\* Chapter \d+:  (with the space after the colon) at position i.
locator_at(s, i) ==
    LET p == i + Len(LitChapterSp)
        C == {d \in 1..Run(s, p, Digit) : HasLit(s, p + d, LitColonSp)}
    IN  IF ~HasLit(s, i, LitChapterSp) \/ C = {} THEN NoMatch
        ELSE LET d == Max(C)
             IN  [ok |-> TRUE, start |-> i, stop |-> p + d + Len(LitColonSp),
                  groups |-> <<>>]

match_at(pat, s, i) ==
    CASE pat = "figure"   -> caption_at(s, i, LitFigure)
      [] pat = "table"    -> caption_at(s, i, LitTable)
      [] pat = "equation" -> equation_at(s, i)
      [] pat = "locator"  -> locator_at(s, i)

\* re.finditer: the matches from left to right, each search resuming where
\* the previous match ended (no match of these patterns is empty).
RECURSIVE finditer_from(_, _, _)
finditer_from(pat, s, i) ==
    IF i > Len(s) THEN <<>>
    ELSE LET m == match_at(pat, s, i)
         IN  IF m.ok THEN <<m>> \o finditer_from(pat, s, m.stop)
             ELSE finditer_from(pat, s, i + 1)

finditer(pat, s) == finditer_from(pat, s, 1)

\* re.search(r'\d+', s).group(): the first run of digits of s.
RECURSIVE search_digits(_, _)
search_digits(s, i) ==
    IF i > Len(s) THEN <<>>
    ELSE IF s[i] \in Digit THEN Slice(s, i, i + Run(s, i, Digit))
    ELSE search_digits(s, i + 1)

(***************************************************************************)
(* The documents of the model.  A page is what the extraction library      *)
(* gives for it: kind "text" with the text of extract_text() (possibly     *)
(* empty), kind "none" when extract_text() returns None, kind "error" when *)
(* extract_text() raises; words is the result of extract_words().          *)
(***************************************************************************)
\* 'Chapter 3. Storage Engines\n2.3 Logs'
TextChapterSection ==
    <<"C","h","a","p","t","e","r"," ","3","."," ","S","t","o","r","a","g",
      "e"," ","E","n","g","i","n","e","s","\n","2",".","3"," ","L","o","g",
      "s">>

\* '2.3.1 Write-Ahead Logs'
TextDeepSection ==
    <<"2",".","3",".","1"," ","W","r","i","t","e","-","A","h","e","a","d",
      " ","L","o","g","s">>

\* '1.2 Intro\n3 Overview'
TextSections ==
    <<"1",".","2"," ","I","n","t","r","o","\n","3"," ","O","v","e","r","v",
      "i","e","w">>

\* 'CHAPTER IV: Data\n4. Basics\nReferences'
TextRomanChapter ==
    <<"C","H","A","P","T","E","R"," ","I","V",":"," ","D","a","t","a","\n",
      "4","."," ","B","a","s","i","c","s","\n","R","e","f","e","r","e","n",
      "c","e","s">>

\* 'Figure 4.2: Replication topology'
TextFigure ==
    <<"F","i","g","u","r","e"," ","4",".","2",":"," ","R","e","p","l","i",
      "c","a","t","i","o","n"," ","t","o","p","o","l","o","g","y">>

\* 'Figure 4.2:\nTopology'
TextSplitFigure ==
    <<"F","i","g","u","r","e"," ","4",".","2",":","\n","T","o","p","o","l",
      "o","g","y">>

\* 'Table 1. Costs\nsee (eq 3.1) and (2)'
TextTableEquations ==
    <<"T","a","b","l","e"," ","1","."," ","C","o","s","t","s","\n","s","e",
      "e"," ","(","e","q"," ","3",".","1",")"," ","a","n","d"," ","(","2",
      ")">>

\* 'Appendix A: Proofs\nTable 2: a\nTable 3: b'
TextAppendixTables ==
    <<"A","p","p","e","n","d","i","x"," ","A",":"," ","P","r","o","o","f",
      "s","\n","T","a","b","l","e"," ","2",":"," ","a","\n","T","a","b","l",
      "e"," ","3",":"," ","b">>

\* 'Chapter 3. \nStorage'
TextSplitChapter ==
    <<"C","h","a","p","t","e","r"," ","3","."," ","\n","S","t","o","r","a",
      "g","e">>

\* 'Chapter 1: A\n1.1 x\nChapter 2: B\n2.1 y'
TextTwoChapters ==
    <<"C","h","a","p","t","e","r"," ","1",":"," ","A","\n","1",".","1"," ",
      "x","\n","C","h","a","p","t","e","r"," ","2",":"," ","B","\n","2",".",
      "1"," ","y">>

\* '1.1 Figure 2: Flow\nFigure 3: X\nBibliography'
TextSectionFigures ==
    <<"1",".","1"," ","F","i","g","u","r","e"," ","2",":"," ","F","l","o",
      "w","\n","F","i","g","u","r","e"," ","3",":"," ","X","\n","B","i","b",
      "l","i","o","g","r","a","p","h","y">>

\* 'intro Chapter 7: The Great Divide more'
TextLocated ==
    <<"i","n","t","r","o"," ","C","h","a","p","t","e","r"," ","7",":"," ",
      "T","h","e"," ","G","r","e","a","t"," ","D","i","v","i","d","e"," ",
      "m","o","r","e">>

\* 'Chapter 7. The Great Divide'
TextDotChapter ==
    <<"C","h","a","p","t","e","r"," ","7","."," ","T","h","e"," ","G","r",
      "e","a","t"," ","D","i","v","i","d","e">>

\* 'Chapter 5: y Chapter 4: x'
TextFourFive ==
    <<"C","h","a","p","t","e","r"," ","5",":"," ","y"," ","C","h","a","p",
      "t","e","r"," ","4",":"," ","x">>

\* 'Chapter 25: Chapter 26: Chapter 0: '
TextRange ==
    <<"C","h","a","p","t","e","r"," ","2","5",":"," ","C","h","a","p","t",
      "e","r"," ","2","6",":"," ","C","h","a","p","t","e","r"," ","0",":",
      " ">>

\* '0123456789012345678901234567890123 Chapter 3: abcdefghijklmnopqrstuvwxyzabcdefgh'
TextLong ==
    <<"0","1","2","3","4","5","6","7","8","9","0","1","2","3","4","5","6",
      "7","8","9","0","1","2","3","4","5","6","7","8","9","0","1","2","3",
      " ","C","h","a","p","t","e","r"," ","3",":"," ","a","b","c","d","e",
      "f","g","h","i","j","k","l","m","n","o","p","q","r","s","t","u","v",
      "w","x","y","z","a","b","c","d","e","f","g","h">>

Word(t, size) == [text |-> t, size |-> size]

TextPage(t, words) == [kind |-> "text", text |-> t, words |-> words]

NonePage == [kind |-> "none", text |-> <<>>, words |-> <<>>]

ErrorPage == [kind |-> "error", text |-> <<>>, words |-> <<>>]

PageValues ==
    {TextPage(t, <<>>) :
        t \in {<<>>, TextChapterSection, TextDeepSection, TextSections,
               TextRomanChapter, TextFigure, TextSplitFigure,
               TextTableEquations, TextAppendixTables, TextSplitChapter,
               TextSectionFigures, TextDotChapter, TextFourFive, TextRange}}
    \cup {TextPage(TextTwoChapters,
                   <<Word(<<"1",".","1">>, 10), Word(LitChapter, 14)>>),
          TextPage(TextLocated, <<Word(LitChapter, 18)>>),
          TextPage(TextLong, <<Word(<<"C","h","a","p","t","e","r","3">>, 0)>>),
          NonePage, ErrorPage}

Documents == UNION {[1..n -> PageValues] : n \in 0..MaxPages}

(***************************************************************************)
(* State.                                                                  *)
(***************************************************************************)
VARIABLES
    prog,             \* the entry point that runs: "classifier" or "locator"
    pdf,              \* the document: the sequence of its pages
    handle,           \* the document handle: "unopened", "open", "closed"
    pc,               \* position of the run
    page_idx,         \* number of pages the scan loop has gone through
    structure,        \* AcademicBookMapper.structure
    current_chapter,  \* AcademicBookMapper.current_chapter: 0 for None, else
                      \* the index in structure.chapters of the dict it aliases
    book_map,         \* <<>> or <<the value analyze returned>>
    results,          \* the list find_chapters_with_details builds
    console,          \* what the locator printed
    err               \* the exception that ended the scan, "" when none

vars == <<prog, pdf, handle, pc, page_idx, structure, current_chapter,
          book_map, results, console, err>>

\* AcademicBookMapper.__init__
EmptyStructure ==
    [toc |-> <<>>, chapters |-> <<>>, sections |-> <<>>, figures |-> <<>>,
     tables |-> <<>>, equations |-> <<>>, references |-> <<>>,
     appendices |-> <<>>]

Init ==
    /\ prog \in {"classifier", "locator"}
    /\ pdf \in Documents
    /\ handle = "unopened"
    /\ pc = "start"
    /\ page_idx = 0
    /\ structure = EmptyStructure
    /\ current_chapter = 0
    /\ book_map = <<>>
    /\ results = <<>>
    /\ console = <<>>
    /\ err = ""

(***************************************************************************)
(* The classifier: AcademicBookMapper.  Besides the keys of the source's   *)
(* dicts, a record of the model carries where its match was found: `line`  *)
(* (index of the line in the page, from 0) for the line matchers, `span`   *)
(* (match.start(), match.end(), from 1) for the page matchers.  The        *)
(* program does not store them; no operation of the model reads them.      *)
(***************************************************************************)
\* The "if self.current_chapter:" of the section branch: a dict with keys is
\* truthy, None is not.
has_current_chapter(cur) == cur # 0

\* Mutant: only the first chapter heading sets the context.
stale_current_chapter(cur, n) == IF cur = 0 THEN n ELSE cur

\* current_chapter after a chapter heading is appended as chapter number n.
set_current_chapter(cur, n) == n

\* Mutant: the child list is replaced instead of extended.
replace_in_chapter(chapters, cur, section) ==
    [chapters EXCEPT ![cur].sections = <<section>>]

\* self.current_chapter['sections'].append(section)
append_to_chapter(chapters, cur, section) ==
    [chapters EXCEPT ![cur].sections = Append(@, section)]

\* Mutant: insert(0, rec) instead of append.
list_prepend(list, rec) == <<rec>> \o list

\* list.append
list_append(list, rec) == Append(list, rec)

\* One iteration of the loop over the lines: st is <<structure,
\* current_chapter>> before the line, the result is the pair after it.
analyze_line(st, line, k, page_num) ==
    LET struct == st[1]
        cur == st[2]
        chapter == chapter_match(line)
        section == section_match(line)
        appendix == appendix_match(line)
    IN  IF chapter.ok
        THEN LET rec == [number |-> chapter.groups[1],
                         title |-> Strip(chapter.groups[2]),
                         page |-> page_num,
                         sections |-> <<>>,
                         line |-> k]
                 chapters == list_append(struct.chapters, rec)
             IN  <<[struct EXCEPT !.chapters = chapters],
                   set_current_chapter(cur, Len(chapters))>>
        ELSE IF section.ok
        THEN LET rec == [number |-> section.groups[1],
                         title |-> Strip(section.groups[2]),
                         page |-> page_num,
                         level |-> Len(SplitOn(section.groups[1], ".")) - 1,
                         line |-> k]
                 chapters == IF has_current_chapter(cur)
                             THEN append_to_chapter(struct.chapters, cur, rec)
                             ELSE struct.chapters
             IN  <<[struct EXCEPT !.chapters = chapters,
                                  !.sections = list_append(@, rec)],
                   cur>>
        ELSE IF references_match(line)
        THEN <<[struct EXCEPT !.references =
                    list_append(@, [title |-> Strip(line), page |-> page_num,
                                    line |-> k])],
               cur>>
        ELSE IF appendix.ok
        THEN <<[struct EXCEPT !.appendices =
                    list_append(@, [letter |-> appendix.groups[1],
                                    title |-> Strip(appendix.groups[2]),
                                    page |-> page_num,
                                    line |-> k])],
               cur>>
        ELSE st

RECURSIVE analyze_lines(_, _, _, _)
analyze_lines(st, lines, k, page_num) ==
    IF k >= Len(lines) THEN st
    ELSE analyze_lines(analyze_line(st, lines[k + 1], k, page_num),
                       lines, k + 1, page_num)

\* _analyze_page_structure
analyze_page_structure(st, text, page_num) ==
    analyze_lines(st, Split(text), 0, page_num)

caption_record(m, page_num) ==
    [number |-> m.groups[1], caption |-> Strip(m.groups[2]),
     page |-> page_num, span |-> <<m.start, m.stop>>]

equation_record(m, page_num) ==
    [number |-> m.groups[1], page |-> page_num, span |-> <<m.start, m.stop>>]

RECURSIVE append_all(_, _)
append_all(list, recs) ==
    IF recs = <<>> THEN list
    ELSE append_all(list_append(list, Head(recs)), Tail(recs))

\* _detect_figures_tables
detect_figures_tables(struct, text, page_num) ==
    LET figs == finditer("figure", text)
        tabs == finditer("table", text)
        eqs  == finditer("equation", text)
    IN  [struct EXCEPT
            !.figures = append_all(@, [i \in DOMAIN figs |->
                                          caption_record(figs[i], page_num)]),
            !.tables = append_all(@, [i \in DOMAIN tabs |->
                                         caption_record(tabs[i], page_num)]),
            !.equations = append_all(@, [i \in DOMAIN eqs |->
                                            equation_record(eqs[i], page_num)])]

\* _generate_book_map
generate_book_map(struct) ==
    [summary |->
        [total_chapters |-> Len(struct.chapters),
         total_figures |-> Len(struct.figures),
         total_tables |-> Len(struct.tables),
         total_equations |-> Len(struct.equations)],
     structure |->
        [chapters |->
            [i \in DOMAIN struct.chapters |->
                LET chapter == struct.chapters[i]
                IN  [number |-> chapter.number,
                     title |-> chapter.title,
                     page |-> chapter.page,
                     sections |->
                        [j \in DOMAIN chapter.sections |->
                            LET section == chapter.sections[j]
                            IN  [number |-> section.number,
                                 title |-> section.title,
                                 page |-> section.page,
                                 level |-> section.level,
                                 line |-> section.line]],
                     line |-> chapter.line]],
         figures |-> struct.figures,
         tables |-> struct.tables,
         equations |-> struct.equations,
         references |-> struct.references,
         appendices |-> struct.appendices]]

\* Mutant: the document is opened without a with block and never closed.
exit_leaks(h) == h

\* What leaving the "with pdfplumber.open(...)" block does to the handle,
\* on normal exit and on an exception alike.
exit_with(h) == "closed"

\* pdfplumber.open(self.file_path) succeeds: the with block is entered.
analyze_open ==
    /\ prog = "classifier"
    /\ pc = "start"
    /\ handle' = "open"
    /\ pc' = "scanning"
    /\ UNCHANGED <<prog, pdf, page_idx, structure, current_chapter, book_map,
                   results, console, err>>

\* pdfplumber.open raises (no such file): nothing guards it in main.py.
analyze_not_found ==
    /\ prog = "classifier"
    /\ pc = "start"
    /\ pc' = "raised"
    /\ err' = "FileNotFoundError"
    /\ UNCHANGED <<prog, pdf, handle, page_idx, structure, current_chapter,
                   book_map, results, console>>

\* Page number of the next iteration of "enumerate(pdf.pages, 1)".
next_page_num(idx) == idx + 1

\* One iteration of the loop of analyze over a page whose text is read.
analyze_page ==
    /\ prog = "classifier"
    /\ pc = "scanning"
    /\ page_idx < Len(pdf)
    /\ LET page == pdf[page_idx + 1]
           page_num == next_page_num(page_idx)
       IN  /\ page.kind # "error"
           /\ IF page.kind = "text" /\ page.text # <<>>
              THEN LET st == analyze_page_structure(
                                 <<structure, current_chapter>>,
                                 page.text, page_num)
                   IN  /\ structure' =
                              detect_figures_tables(st[1], page.text, page_num)
                       /\ current_chapter' = st[2]
              ELSE UNCHANGED <<structure, current_chapter>>
    /\ page_idx' = page_idx + 1
    /\ UNCHANGED <<prog, pdf, handle, pc, book_map, results, console, err>>

\* page.extract_text() raises: the exception leaves the with block, which
\* closes the document, and propagates out of analyze.
analyze_raise ==
    /\ prog = "classifier"
    /\ pc = "scanning"
    /\ page_idx < Len(pdf)
    /\ pdf[page_idx + 1].kind = "error"
    /\ handle' = exit_with(handle)
    /\ pc' = "raised"
    /\ err' = "ReadError"
    /\ UNCHANGED <<prog, pdf, page_idx, structure, current_chapter, book_map,
                   results, console>>

\* The loop is over: the with block closes the document and analyze returns
\* the book map.
analyze_return ==
    /\ prog = "classifier"
    /\ pc = "scanning"
    /\ page_idx = Len(pdf)
    /\ handle' = exit_with(handle)
    /\ book_map' = <<generate_book_map(structure)>>
    /\ pc' = "returned"
    /\ UNCHANGED <<prog, pdf, page_idx, structure, current_chapter, results,
                   console, err>>

(***************************************************************************)
(* The locator: find_chapters_with_details, display_chapter_analysis and   *)
(* main of phraseFind2.py.                                                 *)
(***************************************************************************)
\* Mutant: the upper end of the filter is exclusive.
in_range_exclusive(chapter_num) ==
    MinChapterNum <= chapter_num /\ chapter_num < MaxChapterNum

\* The filter "1 <= chapter_num <= 25".
in_range(chapter_num) ==
    MinChapterNum <= chapter_num /\ chapter_num <= MaxChapterNum

\* The page index a record carries for the page at index idx of pdf.pages.
record_page(idx) == idx

\* The loop over the words of the page: the size of the first word whose text
\* contains "Chapter", None (<<>>) when there is none.
font_size_of(words) ==
    LET W == {i \in DOMAIN words : Contains(words[i].text, LitChapter)}
    IN  IF W = {} THEN <<>> ELSE <<words[Min(W)].size>>

\* text[start:end].replace('\n', ' ').strip() around the match m.
context_of(text, m) ==
    LET start == IF m.start - ContextWidth > 1 THEN m.start - ContextWidth ELSE 1
        end == IF m.stop + ContextWidth < Len(text) + 1
               THEN m.stop + ContextWidth ELSE Len(text) + 1
    IN  Strip(ReplaceNL(Slice(text, start, end)))

\* The body of the loop over the matches of one page.
RECURSIVE collect_matches(_, _, _, _)
collect_matches(res, ms, page, page_num) ==
    IF ms = <<>> THEN res
    ELSE LET m == Head(ms)
             chapter_text == Slice(page.text, m.start, m.stop)
             chapter_num == ToInt(search_digits(chapter_text, 1))
             rec == [chapter_num |-> chapter_num,
                     page_num |-> record_page(page_num),
                     font_size |-> font_size_of(page.words),
                     context |-> context_of(page.text, m),
                     chapter_text |-> chapter_text]
         IN  collect_matches(IF in_range(chapter_num) THEN Append(res, rec)
                             ELSE res,
                             Tail(ms), page, page_num)

\* list.sort(key=lambda x: x[0]): a stable sort by chapter number.
RECURSIVE insert_sorted(_, _)
insert_sorted(sorted, rec) ==
    IF sorted = <<>> THEN <<rec>>
    ELSE IF sorted[Len(sorted)].chapter_num <= rec.chapter_num
    THEN Append(sorted, rec)
    ELSE Append(insert_sorted(SubSeq(sorted, 1, Len(sorted) - 1), rec),
                sorted[Len(sorted)])

RECURSIVE sort_from(_, _)
sort_from(sorted, rest) ==
    IF rest = <<>> THEN sorted
    ELSE sort_from(insert_sorted(sorted, Head(rest)), Tail(rest))

sort_results(res) == sort_from(<<>>, res)

\* sorted(a set of integers)
RECURSIVE sorted_set(_)
sorted_set(S) ==
    IF S = {} THEN <<>> ELSE <<Min(S)>> \o sorted_set(S \ {Min(S)})

\* Mutant: range(max(found_chapters) + 1), which starts at 0.
expected_from_zero(found) == 0..Max(found)

\* range(1, max(found_chapters) + 1) as a set.
expected_chapters(found) == 1..Max(found)

\* pdfplumber.open(input_pdf) succeeds.
find_open ==
    /\ prog = "locator"
    /\ pc = "start"
    /\ handle' = "open"
    /\ pc' = "scanning"
    /\ console' = Append(console, [line |-> "analyzing"])
    /\ UNCHANGED <<prog, pdf, page_idx, structure, current_chapter, book_map,
                   results, err>>

\* pdfplumber.open raises FileNotFoundError.
find_not_found ==
    /\ prog = "locator"
    /\ pc = "start"
    /\ pc' = "raised"
    /\ err' = "FileNotFoundError"
    /\ console' = Append(console, [line |-> "analyzing"])
    /\ UNCHANGED <<prog, pdf, handle, page_idx, structure, current_chapter,
                   book_map, results>>

progress(idx, total) ==
    IF idx % ProgressEvery = 0
    THEN <<[line |-> "scanning", page |-> idx + 1, total |-> total]>>
    ELSE <<>>

\* One iteration of the loop of find_chapters_with_details over a page whose
\* extract_text() returns a string.
find_page ==
    /\ prog = "locator"
    /\ pc = "scanning"
    /\ page_idx < Len(pdf)
    /\ LET page == pdf[page_idx + 1]
       IN  /\ page.kind = "text"
           /\ results' = collect_matches(results, finditer("locator", page.text),
                                         page, page_idx)
    /\ console' = console \o progress(page_idx, Len(pdf))
    /\ page_idx' = page_idx + 1
    /\ UNCHANGED <<prog, pdf, handle, pc, structure, current_chapter, book_map,
                   err>>

\* extract_text() raises, or returns None and pattern.finditer(None) raises
\* TypeError: the exception leaves the with block, which closes the
\* document, and propagates to main.
find_raise ==
    /\ prog = "locator"
    /\ pc = "scanning"
    /\ page_idx < Len(pdf)
    /\ pdf[page_idx + 1].kind \in {"none", "error"}
    /\ err' = IF pdf[page_idx + 1].kind = "none" THEN "TypeError"
              ELSE "ReadError"
    /\ console' = console \o progress(page_idx, Len(pdf))
    /\ handle' = exit_with(handle)
    /\ pc' = "raised"
    /\ UNCHANGED <<prog, pdf, page_idx, structure, current_chapter, book_map,
                   results>>

\* The loop is over: the with block closes the document, the results are
\* sorted and returned to main.
find_return ==
    /\ prog = "locator"
    /\ pc = "scanning"
    /\ page_idx = Len(pdf)
    /\ handle' = exit_with(handle)
    /\ results' = sort_results(results)
    /\ pc' = "returned"
    /\ UNCHANGED <<prog, pdf, page_idx, structure, current_chapter, book_map,
                   console, err>>

\* The row display_chapter_analysis prints for one result.
display_row(r) ==
    [line |-> "row",
     chapter |-> r.chapter_num,
     page |-> r.page_num + 1,
     font_size_str |-> IF r.font_size # <<>> /\ r.font_size[1] # 0
                       THEN <<".1f", r.font_size[1]>> ELSE <<"unknown">>,
     matched_text |-> r.chapter_text,
     context |-> IF Len(r.context) > ContextMaxLen
                 THEN SubSeq(r.context, 1, ContextKeep) \o LitEllipsis
                 ELSE r.context]

\* The lines of the missing-chapters check.
missing_lines(res) ==
    LET found_chapters == {res[i].chapter_num : i \in DOMAIN res}
        missing_chapters == expected_chapters(found_chapters) \ found_chapters
    IN  IF found_chapters # {} /\ missing_chapters # {}
        THEN <<[line |-> "missing", chapters |-> sorted_set(missing_chapters)]>>
        ELSE <<>>

\* display_chapter_analysis(results), called by main.
display_chapter_analysis ==
    /\ prog = "locator"
    /\ pc = "returned"
    /\ console' =
          IF results = <<>>
          THEN Append(console, [line |-> "no_chapters"])
          ELSE console
               \o <<[line |-> "header"]>>
               \o [i \in DOMAIN results |-> display_row(results[i])]
               \o <<[line |-> "total", count |-> Len(results)],
                    [line |-> "pages",
                     pages |-> [i \in DOMAIN results |-> results[i].page_num + 1]]>>
               \o missing_lines(results)
    /\ pc' = "displayed"
    /\ UNCHANGED <<prog, pdf, handle, page_idx, structure, current_chapter,
                   book_map, results, err>>

\* The except clauses of main: the results are dropped, a message is printed.
main_except ==
    /\ prog = "locator"
    /\ pc = "raised"
    /\ console' = Append(console,
                         IF err = "FileNotFoundError"
                         THEN [line |-> "not_found"]
                         ELSE [line |-> "error", message |-> err])
    /\ results' = <<>>
    /\ pc' = "reported"
    /\ UNCHANGED <<prog, pdf, handle, page_idx, structure, current_chapter,
                   book_map, err>>

Next ==
    \/ analyze_open
    \/ analyze_not_found
    \/ analyze_page
    \/ analyze_raise
    \/ analyze_return
    \/ find_open
    \/ find_not_found
    \/ find_page
    \/ find_raise
    \/ find_return
    \/ display_chapter_analysis
    \/ main_except

Spec == Init /\ [][Next]_vars

(***************************************************************************)
(* Properties.                                                             *)
(***************************************************************************)
Range(f) == {f[i] : i \in DOMAIN f}

Classifier == prog = "classifier"

Locator == prog = "locator"

\* Scan order of two records of the line matchers.
Before(a, b) == a.page < b.page \/ (a.page = b.page /\ a.line < b.line)

\* The chapters whose child list holds the section s.
Holders(s) ==
    {c \in DOMAIN structure.chapters : s \in Range(structure.chapters[c].sections)}

\* The chapters whose heading precedes the section s in scan order.
Preceding(s) ==
    {c \in DOMAIN structure.chapters : Before(structure.chapters[c], s)}

\* C1: every Section record is in the child list of exactly one chapter, the
\* one whose heading most recently preceded it in scan order (also from an
\* earlier page), once, and in no other; a Section with no preceding chapter
\* is in no child list; every Section is in the global list.
C1_NearestPrecedingChapter ==
    /\ \A i \in DOMAIN structure.sections :
          LET s == structure.sections[i]
              P == Preceding(s)
          IN  /\ Holders(s) =
                    {c \in P : \A d \in P :
                        ~Before(structure.chapters[c], structure.chapters[d])}
              /\ P = {} => Holders(s) = {}
              /\ P # {} => Cardinality(Holders(s)) = 1
              /\ \A c \in Holders(s) :
                    Cardinality({j \in DOMAIN structure.chapters[c].sections :
                                   structure.chapters[c].sections[j] = s}) = 1
    /\ \A c \in DOMAIN structure.chapters :
          Range(structure.chapters[c].sections) \subseteq Range(structure.sections)

\* Two chapters of page 1: a section of page 2 is in the child list of the
\* second and not in that of the first.
C1_Witness ==
    /\ Classifier
    /\ Len(structure.chapters) = 2
    /\ structure.chapters[2].page = 1
    /\ \E s \in Range(structure.chapters[2].sections) :
          s.page = 2 /\ s \notin Range(structure.chapters[1].sections)

\* End (exclusive) of the dotted numeric sequence \d+(\.\d+)* that starts at
\* i, 0 when no digit starts there.
RECURSIVE DottedEnd(_, _)
DottedEnd(line, i) ==
    LET d == Run(line, i, Digit)
    IN  IF d = 0 THEN 0
        ELSE IF /\ i + d <= Len(line)
                /\ line[i + d] = "."
                /\ Run(line, i + d + 1, Digit) > 0
        THEN DottedEnd(line, i + d + 1)
        ELSE i + d

\* The line begins with a dotted numeric sequence, whitespace and a title.
IsDottedHeading(line) ==
    LET e == DottedEnd(line, 1)
    IN  /\ e > 0
        /\ Run(line, e, Space) >= 1
        /\ e + Run(line, e, Space) <= Len(line)

DottedNumber(line) == Slice(line, 1, DottedEnd(line, 1))

DottedGroups(line) ==
    Cardinality({i \in DOMAIN DottedNumber(line) : DottedNumber(line)[i] = "."}) + 1

\* The pages the classifier has scanned and found text on.
ScannedTextPages ==
    {p \in 1..page_idx : pdf[p].kind = "text" /\ pdf[p].text # <<>>}

\* C2: every scanned line that begins with a dotted numeric sequence of k
\* groups, whitespace and a title has exactly one Section record, whose number
\* is the sequence and whose level is k - 1.
C2_DottedSectionLevel ==
    Classifier =>
        \A p \in ScannedTextPages :
            LET lines == Split(pdf[p].text)
            IN  \A k \in 0..Len(lines) - 1 :
                    IsDottedHeading(lines[k + 1]) =>
                        LET R == {i \in DOMAIN structure.sections :
                                    /\ structure.sections[i].page = p
                                    /\ structure.sections[i].line = k}
                        IN  /\ Cardinality(R) = 1
                            /\ \A i \in R :
                                  /\ structure.sections[i].number =
                                        DottedNumber(lines[k + 1])
                                  /\ structure.sections[i].level =
                                        DottedGroups(lines[k + 1]) - 1

\* extract_text() gave no text for the page: None or the empty string.
NoText(page) == page.kind = "none" \/ (page.kind = "text" /\ page.text = <<>>)

\* The pages of the records the classifier holds.
RecordPages ==
    {r.page : r \in Range(structure.chapters)}
    \cup {r.page : r \in Range(structure.sections)}
    \cup {r.page : r \in Range(structure.figures)}
    \cup {r.page : r \in Range(structure.tables)}
    \cup {r.page : r \in Range(structure.equations)}
    \cup {r.page : r \in Range(structure.references)}
    \cup {r.page : r \in Range(structure.appendices)}

\* C3: in both scans a page without text is not an error: it contributes no
\* record and no scan ends with an exception at such a page.
C3_NoTextIsNoError ==
    /\ \A p \in 1..Len(pdf) :
          NoText(pdf[p]) =>
              /\ p \notin RecordPages
              /\ \A k \in DOMAIN results : results[k].page_num # p - 1
    /\ (pc \in {"raised", "reported"} /\ err # "FileNotFoundError")
          => ~NoText(pdf[page_idx + 1])

\* The pattern "Chapter <digits>: " matches at position i of text with d digits.
LocatorMatch(text, i, d) ==
    /\ d >= 1
    /\ HasLit(text, i, LitChapterSp)
    /\ \A j \in 0..d - 1 :
          /\ i + Len(LitChapterSp) + j <= Len(text)
          /\ text[i + Len(LitChapterSp) + j] \in Digit
    /\ HasLit(text, i + Len(LitChapterSp) + d, LitColonSp)

\* The matches of the pattern in text, each as <<position, chapter number>>.
LocatorMatches(text) ==
    UNION {{<<i, ToInt(SubSeq(text, i + Len(LitChapterSp),
                              i + Len(LitChapterSp) + d - 1))>> :
              d \in {x \in 1..Len(text) : LocatorMatch(text, i, x)}} :
           i \in {x \in 1..Len(text) : HasLit(text, x, LitChapterSp)}}

\* C4: the returned list holds exactly one record for each match whose number
\* is in 1..25 and none for the others, each with the zero-based index of the
\* page of its match, in ascending order of chapter number.
C4_LocatorResults ==
    (Locator /\ pc \in {"returned", "displayed"}) =>
        /\ \A k \in DOMAIN results :
              /\ results[k].page_num \in 0..Len(pdf) - 1
              /\ results[k].chapter_num \in 1..25
        /\ \A p \in 1..Len(pdf) :
              LET matches == LocatorMatches(pdf[p].text)
              IN  \A n \in 1..25 :
                      Cardinality({k \in DOMAIN results :
                                     /\ results[k].page_num = p - 1
                                     /\ results[k].chapter_num = n})
                      = Cardinality({m \in matches : m[2] = n})
        /\ \A k \in DOMAIN results : \A l \in DOMAIN results :
              k < l => results[k].chapter_num <= results[l].chapter_num

\* The locator returned "Chapter 25" of the second page, left out the matches
\* numbered 26 and 0 of that page, and put the chapter of the first page first.
C4_Witness ==
    /\ Locator
    /\ pc = "returned"
    /\ Len(pdf) = 2
    /\ pdf[2].text = TextRange
    /\ Len(results) = 2
    /\ results[2].chapter_num = 25
    /\ results[2].page_num = 1
    /\ results[1].page_num = 0

FoundChapters == {results[k].chapter_num : k \in DOMAIN results}

MissingLines == {i \in DOMAIN console : console[i].line = "missing"}

\* C5: for a non-empty result the missing-chapters line lists exactly the
\* numbers of 1..max(F) that are not in F, ascending, and there is no such
\* line when there is none.
C5_MissingChapters ==
    (Locator /\ pc = "displayed" /\ results # <<>>) =>
        LET gaps == {n \in 0..MaxChapterNum + 1 :
                       /\ n >= 1
                       /\ \E f \in FoundChapters : n <= f
                       /\ n \notin FoundChapters}
        IN  IF gaps = {} THEN MissingLines = {}
            ELSE /\ Cardinality(MissingLines) = 1
                 /\ \A i \in MissingLines :
                       LET ch == console[i].chapters
                       IN  /\ Range(ch) = gaps
                           /\ \A a \in DOMAIN ch : \A b \in DOMAIN ch :
                                 a < b => ch[a] < ch[b]

\* The found chapters are {1, 2, 4, 5} and the line reports [3].
C5_Witness ==
    /\ Locator
    /\ pc = "displayed"
    /\ FoundChapters = {1, 2, 4, 5}
    /\ \E i \in MissingLines : console[i].chapters = <<3>>

\* The text of the match a record of a page matcher came from.
MatchedText(r) == Slice(pdf[r.page].text, r.span[1], r.span[2])

\* The line a record of a line matcher came from.
MatchedLine(r) == Split(pdf[r.page].text)[r.line + 1]

\* C6: no record comes from a heading or caption split across lines or pages:
\* the keyword, number and caption of every Figure and Table record lie on one
\* line of its page, and the number and title of every Chapter, Section and
\* Appendix record lie on the line of its heading.
C6_NoSplitHeading ==
    Classifier =>
        /\ \A r \in Range(structure.figures) : NL \notin Range(MatchedText(r))
        /\ \A r \in Range(structure.tables) : NL \notin Range(MatchedText(r))
        /\ \A r \in Range(structure.chapters) :
              /\ Contains(MatchedLine(r), r.number)
              /\ Contains(MatchedLine(r), r.title)
        /\ \A r \in Range(structure.sections) :
              /\ Contains(MatchedLine(r), r.number)
              /\ Contains(MatchedLine(r), r.title)
        /\ \A r \in Range(structure.appendices) :
              /\ Contains(MatchedLine(r), r.letter)
              /\ Contains(MatchedLine(r), r.title)

\* The Section records of the book map.
BookMapSections ==
    UNION {Range(book_map[1].structure.chapters[c].sections) :
             c \in DOMAIN book_map[1].structure.chapters}

SectionView(s) ==
    [number |-> s.number, title |-> s.title, page |-> s.page,
     level |-> s.level, line |-> s.line]

\* C7: every record created during the scan appears in the book map analyze
\* returns.
C7_BookMapHoldsEveryRecord ==
    (Classifier /\ pc = "returned") =>
        LET m == book_map[1].structure
        IN  /\ \A c \in DOMAIN structure.chapters :
                  /\ c \in DOMAIN m.chapters
                  /\ m.chapters[c].number = structure.chapters[c].number
                  /\ m.chapters[c].title = structure.chapters[c].title
                  /\ m.chapters[c].page = structure.chapters[c].page
            /\ \A s \in Range(structure.sections) :
                  SectionView(s) \in BookMapSections
            /\ Range(structure.figures) \subseteq Range(m.figures)
            /\ Range(structure.tables) \subseteq Range(m.tables)
            /\ Range(structure.equations) \subseteq Range(m.equations)
            /\ Range(structure.references) \subseteq Range(m.references)
            /\ Range(structure.appendices) \subseteq Range(m.appendices)

\* The scan has ended after the document was opened.
ScanEnded ==
    pc \in {"returned", "displayed", "raised", "reported"}
    /\ err # "FileNotFoundError"

\* C8: in both scans the handle is acquired once, before any page is read; it
\* is closed whenever the scan has ended, by the last page or by an error
\* raised at a page; no page is read unless it is open; once closed it stays
\* closed.
C8_HandleReleased ==
    /\ [](ScanEnded => handle = "closed")
    /\ [][/\ (handle # "open" /\ handle' = "open")
                => (handle = "unopened" /\ page_idx = 0)
          /\ page_idx' # page_idx => (handle = "open" /\ handle' = "open")
          /\ handle = "closed" => handle' = "closed"]_vars

\* A scan that had read a page ended by an error raised at a later page, and
\* the handle is closed.
C8_Witness ==
    /\ pc = "raised"
    /\ err \in {"ReadError", "TypeError"}
    /\ page_idx >= 1
    /\ handle = "closed"

LineOrdered(list) ==
    \A i \in DOMAIN list : \A j \in DOMAIN list :
        i < j => Before(list[i], list[j])

SpanOrdered(list) ==
    \A i \in DOMAIN list : \A j \in DOMAIN list :
        i < j => \/ list[i].page < list[j].page
                 \/ /\ list[i].page = list[j].page
                    /\ list[i].span[1] < list[j].span[1]

\* C9: at every point of the scan each collection is in page-scan order:
\* ascending page number, and within a page the order of the matches in the
\* text of the page.
C9_ScanOrder ==
    Classifier =>
        /\ LineOrdered(structure.chapters)
        /\ LineOrdered(structure.sections)
        /\ \A c \in DOMAIN structure.chapters :
              LineOrdered(structure.chapters[c].sections)
        /\ LineOrdered(structure.references)
        /\ LineOrdered(structure.appendices)
        /\ SpanOrdered(structure.figures)
        /\ SpanOrdered(structure.tables)
        /\ SpanOrdered(structure.equations)

\* Two tables of one page are followed by a table of the next page, which
\* also holds two equation references.
C9_Witness ==
    /\ Classifier
    /\ Len(structure.tables) = 3
    /\ structure.tables[1].page = structure.tables[2].page
    /\ structure.tables[2].page < structure.tables[3].page
    /\ Len(structure.equations) = 2
    /\ structure.equations[1].page = structure.tables[3].page

\* The records of the list are where they were, each as it was.
Kept(old, new) ==
    /\ Len(old) <= Len(new)
    /\ \A i \in DOMAIN old : new[i] = old[i]

WithoutSections(chapter) ==
    [number |-> chapter.number, title |-> chapter.title,
     page |-> chapter.page, line |-> chapter.line]

\* C10 as stated: no step changes any attribute of a record that is in its
\* collection, the child list of a Chapter record included.
C10_NeverMutated ==
    [][/\ Kept(structure.chapters, structure'.chapters)
       /\ Kept(structure.sections, structure'.sections)
       /\ Kept(structure.figures, structure'.figures)
       /\ Kept(structure.tables, structure'.tables)
       /\ Kept(structure.equations, structure'.equations)
       /\ Kept(structure.references, structure'.references)
       /\ Kept(structure.appendices, structure'.appendices)]_vars

\* C10 as amended: no step changes any attribute of a record that is in its
\* collection, except that the child list of a Chapter record grows at its
\* end: the sections it holds stay where they were, each as it was.
C10_OnlyChildListsGrow ==
    [][/\ Len(structure.chapters) <= Len(structure'.chapters)
       /\ \A c \in DOMAIN structure.chapters :
             /\ WithoutSections(structure'.chapters[c]) =
                   WithoutSections(structure.chapters[c])
             /\ Kept(structure.chapters[c].sections,
                     structure'.chapters[c].sections)
       /\ Kept(structure.sections, structure'.sections)
       /\ Kept(structure.figures, structure'.figures)
       /\ Kept(structure.tables, structure'.tables)
       /\ Kept(structure.equations, structure'.equations)
       /\ Kept(structure.references, structure'.references)
       /\ Kept(structure.appendices, structure'.appendices)]_vars

\* A chapter record of the first page has received sections of both pages.
C10_Witness ==
    /\ Classifier
    /\ \E c \in DOMAIN structure.chapters :
          /\ structure.chapters[c].page = 1
          /\ \E s \in Range(structure.chapters[c].sections) : s.page = 1
          /\ \E s \in Range(structure.chapters[c].sections) : s.page = 2

====
